---- MODULE Spec2Model ----
(***************************************************************************)
(* Model of the data-collection notebook example_usage.ipynb:             *)
(*   process_discord_exports, batch_fetch_symphonies,                     *)
(*   batch_fetch_backtests, process_backtest_results and                  *)
(*   main_data_collection_workflow.                                       *)
(* The program is sequential; pc is the position of the single thread of  *)
(* control.  The remote API, the directory listing and the local files    *)
(* are the environment: their answers are chosen with \E.                 *)
(***************************************************************************)
EXTENDS Integers, Sequences, FiniteSets, TLC

VARIABLES
    pc,                 \* position of the control flow
    events,             \* observable calls in program order: sleeps, fetches, writes, log lines
    \* process_discord_exports
    export_dir,         \* the export directory: its entries in the order the file system lists them
    discord_jsonfiles,  \* local jsonfiles of process_discord_exports (the listing)
    symphonies_dict,    \* local symphonies_dict
    previous_result,    \* what the previous run over the same directory returned
    \* batch_fetch_symphonies
    symphony_sid_list,  \* the input sequence
    i,                  \* number of completed iterations of the running loop
    response_list,
    failure_list,
    \* batch_fetch_backtests
    df,                 \* the input table: sequence of rows [label, symphony_sid]
    rlist,
    flist,
    fetched,            \* (ok_status_code, status_code, jsond) of the call in progress
    bin_bt,             \* bin/BT-<end_date>/<name>.json : name -> content
    \* process_backtest_results
    jsonfiles,          \* the input sequence of file names
    dict_allocation,
    dict_return,
    dict_stats,
    dict_name,
    \* main_data_collection_workflow
    df_response,
    dict_quant_stats,
    dict_quant_oos_stats,
    dict_backtest_stats,
    csv                 \* the dataset files: "SYMPHONIES", "OOS", "BACKTEST" -> content

vars == <<pc, events, export_dir, discord_jsonfiles, symphonies_dict, previous_result,
          symphony_sid_list, i, response_list, failure_list,
          df, rlist, flist, fetched, bin_bt,
          jsonfiles, dict_allocation, dict_return, dict_stats, dict_name,
          df_response, dict_quant_stats, dict_quant_oos_stats, dict_backtest_stats, csv>>

discordVars == <<export_dir, discord_jsonfiles, symphonies_dict, previous_result>>
symVars == <<symphony_sid_list, response_list, failure_list>>
btVars == <<df, rlist, flist, fetched, bin_bt>>
pbrVars == <<jsonfiles, dict_allocation, dict_return, dict_stats, dict_name>>
wfVars == <<df_response, dict_quant_stats, dict_quant_oos_stats, dict_backtest_stats, csv>>

----------------------------------------------------------------------------
(* Bounds of the model *)

MaxN == 25            \* longest symphony_sid_list
MaxFailures == 2      \* most failing calls the API gives in one run
NumSids == 2          \* distinct identifiers

(* Program constants *)

SleepEvery == 20      \* idx % 20
OkStatus == 200

Sids == 1..NumSids
FailCodes == {404, 500}
Variants == {1, 2}    \* contents a backtest document can have
Empty == <<>>         \* the empty dict / the empty list

----------------------------------------------------------------------------
(* Helpers on sequences *)

RECURSIVE Ascending(_)
\* the elements of a finite set of integers in ascending order
Ascending(S) ==
    IF S = {} THEN <<>>
    ELSE LET m == CHOOSE x \in S : \A y \in S : x <= y
         IN <<m>> \o Ascending(S \ {m})

Range(s) == {s[k] : k \in DOMAIN s}

----------------------------------------------------------------------------
(* The remote API *)

\* a successful symphony document of identifier sid
SymphonyDoc(sid) == [kind |-> "symphony", id |-> sid, variant |-> 0]
\* the payload of a failed call
ErrorDoc(code) == [kind |-> "error", id |-> 0, variant |-> code]
\* a backtest document of identifier sid; variant stands for its content
BacktestDoc(sid, v) == [kind |-> "backtest", id |-> sid, variant |-> v]

\* what fetch_symphony(sid) can return: (ok_status_code, status_code, json_data)
FetchSymphony(sid) ==
    {[ok |-> TRUE, status |-> OkStatus, json |-> SymphonyDoc(sid)]}
    \cup {[ok |-> FALSE, status |-> c, json |-> ErrorDoc(c)] : c \in FailCodes}

\* event records
NoData == [kind |-> "none", id |-> 0, variant |-> 0]
SleepEvent(idx) == [op |-> "sleep", idx |-> idx, sid |-> 0, status |-> 0, data |-> NoData]
CallEvent(op, idx, sid, status, data) ==
    [op |-> op, idx |-> idx, sid |-> sid, status |-> status, data |-> data]

\* the calls of the API that have failed so far
FailedCalls ==
    Cardinality({k \in DOMAIN events :
                    /\ events[k].op \in {"fetch_symphony", "fetch_backtest_raw"}
                    /\ events[k].status # OkStatus})

----------------------------------------------------------------------------
(* batch_fetch_symphonies *)

SleepDue_Off(idx) == (idx + 1) % SleepEvery = 0
\* if idx % 20 == 0
SleepDue(idx) == idx % SleepEvery = 0

FailureRecord_Count(idx, sid, status_code) == <<Len(failure_list), sid, status_code>>
\* (idx, sid, status_code)
FailureRecord(idx, sid, status_code) == <<idx, sid, status_code>>

\* one iteration with a retry of a failed call
SymIterate_Retry ==
    /\ pc = "sym_loop"
    /\ i < Len(symphony_sid_list)
    /\ LET idx == i
           sid == symphony_sid_list[i + 1]
           pause == IF SleepDue(idx) THEN <<SleepEvent(idx)>> ELSE <<>>
       IN \E r \in FetchSymphony(sid) :
            /\ r.ok \/ FailedCalls < MaxFailures
            /\ IF r.ok
               THEN /\ events' = events \o pause
                            \o <<CallEvent("fetch_symphony", idx, sid, r.status, r.json)>>
                    /\ response_list' = Append(response_list, r.json)
                    /\ UNCHANGED failure_list
               ELSE /\ events' = events \o pause
                            \o <<CallEvent("fetch_symphony", idx, sid, r.status, r.json),
                                 CallEvent("fetch_symphony", idx, sid, OkStatus,
                                           SymphonyDoc(sid))>>
                    /\ response_list' = Append(response_list, SymphonyDoc(sid))
                    /\ UNCHANGED failure_list
    /\ i' = i + 1
    /\ UNCHANGED <<pc, symphony_sid_list, discordVars, btVars, pbrVars, wfVars>>

\* one iteration of the for loop: the pause when due, the call, the bookkeeping
SymIterate ==
    /\ pc = "sym_loop"
    /\ i < Len(symphony_sid_list)
    /\ LET idx == i
           sid == symphony_sid_list[i + 1]
           pause == IF SleepDue(idx) THEN <<SleepEvent(idx)>> ELSE <<>>
       IN \E r \in FetchSymphony(sid) :
            /\ r.ok \/ FailedCalls < MaxFailures
            /\ events' = events \o pause
                            \o <<CallEvent("fetch_symphony", idx, sid, r.status, r.json)>>
            /\ IF r.ok
               THEN /\ response_list' = Append(response_list, r.json)
                    /\ UNCHANGED failure_list
               ELSE /\ failure_list' = Append(failure_list,
                                              FailureRecord(idx, sid, r.status))
                    /\ UNCHANGED response_list
    /\ i' = i + 1
    /\ UNCHANGED <<pc, symphony_sid_list, discordVars, btVars, pbrVars, wfVars>>

\* return response_list, failure_list
SymReturn ==
    /\ pc = "sym_loop"
    /\ i = Len(symphony_sid_list)
    /\ pc' = "sym_returned"
    /\ UNCHANGED <<events, i, symVars, discordVars, btVars, pbrVars, wfVars>>

----------------------------------------------------------------------------
(* Initial values of the variables a specification does not use *)

IdleDiscord ==
    /\ export_dir = Empty
    /\ discord_jsonfiles = <<>>
    /\ symphonies_dict = Empty
    /\ previous_result = <<>>
IdleSym ==
    /\ symphony_sid_list = <<>>
    /\ response_list = <<>>
    /\ failure_list = <<>>
IdleBT ==
    /\ df = <<>>
    /\ rlist = <<>>
    /\ flist = <<>>
    /\ fetched = <<>>
    /\ bin_bt = Empty
IdlePBR ==
    /\ jsonfiles = <<>>
    /\ dict_allocation = Empty
    /\ dict_return = Empty
    /\ dict_stats = Empty
    /\ dict_name = Empty
IdleWf ==
    /\ df_response = <<>>
    /\ dict_quant_stats = Empty
    /\ dict_quant_oos_stats = Empty
    /\ dict_backtest_stats = Empty
    /\ csv = Empty

----------------------------------------------------------------------------
(* batch_fetch_symphonies called on any identifier sequence of at most MaxN *)

\* the identifier sequence of length n over the identifiers 1..NumSids in
\* rotation: without duplicates up to NumSids, with duplicates beyond
SidPattern(n) == [k \in 1..n |-> ((k - 1) % NumSids) + 1]

InitSym ==
    /\ pc = "sym_loop"
    /\ events = <<>>
    /\ i = 0
    /\ \E n \in 0..MaxN : symphony_sid_list = SidPattern(n)
    /\ response_list = <<>>
    /\ failure_list = <<>>
    /\ IdleDiscord /\ IdleBT /\ IdlePBR /\ IdleWf

NextSym == SymIterate \/ SymReturn

SpecSym == InitSym /\ [][NextSym]_vars

----------------------------------------------------------------------------
(* Properties of batch_fetch_symphonies *)

\* the fetch_symphony calls made so far, in order
IsSymCall(e) == e.op = "fetch_symphony"
IsSleep(e) == e.op = "sleep"
SymCalls == SelectSeq(events, IsSymCall)
\* the pauses made so far, in order
Sleeps == SelectSeq(events, IsSleep)
\* 0-indexed positions whose call failed / succeeded
FailedPositions == {e.idx : e \in {c \in Range(SymCalls) : c.status # 200}}
OkPositions == {e.idx : e \in {c \in Range(SymCalls) : c.status = 200}}
CallAt(idx) == CHOOSE c \in Range(SymCalls) : c.idx = idx
StatusAt(idx) == CallAt(idx).status
HasDuplicates(s) == \E a, b \in DOMAIN s : a # b /\ s[a] = s[b]

\* C1: batch_fetch_symphonies calls fetch_symphony once per position, in
\* order, with the identifier of that position and never a second time;
\* on return all N positions are done and successes + failures = N.
C1_OneCallPerPosition ==
    /\ Len(SymCalls) = i
    /\ \A k \in DOMAIN SymCalls :
          /\ SymCalls[k].idx = k - 1
          /\ SymCalls[k].sid = symphony_sid_list[k]
    /\ Len(response_list) + Len(failure_list) = i
    /\ pc = "sym_returned" =>
          /\ Len(SymCalls) = Len(symphony_sid_list)
          /\ Len(response_list) + Len(failure_list) = Len(symphony_sid_list)

\* a returned batch with duplicates, successes and failures
C1_Witness ==
    /\ pc = "sym_returned"
    /\ Len(symphony_sid_list) >= 3
    /\ HasDuplicates(symphony_sid_list)
    /\ response_list # <<>>
    /\ failure_list # <<>>

\* C2: the pause happens exactly at the positions 0, 20, 40, ..., each right
\* before the call of that position, whatever calls failed before; a
\* returned run over N identifiers has paused ceil(N/20) times.
C2_PauseEvery20th ==
    /\ \A k \in DOMAIN events :
          events[k].op = "sleep" =>
              /\ events[k].idx % 20 = 0
              /\ k < Len(events)
              /\ events[k + 1].op = "fetch_symphony"
              /\ events[k + 1].idx = events[k].idx
    /\ \A k \in DOMAIN events :
          (events[k].op = "fetch_symphony" /\ events[k].idx % 20 = 0) =>
              /\ k > 1
              /\ events[k - 1].op = "sleep"
              /\ events[k - 1].idx = events[k].idx
    /\ \A j \in DOMAIN Sleeps : Sleeps[j].idx = 20 * (j - 1)
    /\ pc = "sym_returned" => Len(Sleeps) = (Len(symphony_sid_list) + 19) \div 20

\* a returned batch of more than 20 identifiers with a failure before the
\* second pause
C2_Witness ==
    /\ pc = "sym_returned"
    /\ Len(symphony_sid_list) > 20
    /\ \E p \in FailedPositions : p < 20
    /\ Len(Sleeps) = 2

\* C3: the failure list is the (position, identifier, status code) of the
\* failed positions in ascending order, the success list the responses of
\* the succeeding positions in input order; with 25 identifiers of which
\* positions 5 and 17 fail: 23 successes, the two failure triples and
\* pauses at 0 and 20 only.
C3_ListsByPosition ==
    pc = "sym_returned" =>
        LET failed == Ascending(FailedPositions)
            passed == Ascending(OkPositions)
        IN /\ failure_list = [k \in DOMAIN failed |->
                  <<failed[k], symphony_sid_list[failed[k] + 1], StatusAt(failed[k])>>]
           /\ response_list = [k \in DOMAIN passed |-> CallAt(passed[k]).data]
           /\ (Len(symphony_sid_list) = 25 /\ FailedPositions = {5, 17}) =>
                  /\ Len(response_list) = 23
                  /\ failure_list = << <<5, symphony_sid_list[6], StatusAt(5)>>,
                                       <<17, symphony_sid_list[18], StatusAt(17)>> >>
                  /\ [j \in DOMAIN Sleeps |-> Sleeps[j].idx] = <<0, 20>>

\* the end-to-end scenario: 25 identifiers, positions 5 and 17 fail
C3_Witness ==
    /\ pc = "sym_returned"
    /\ Len(symphony_sid_list) = 25
    /\ FailedPositions = {5, 17}
    /\ StatusAt(5) # StatusAt(17)

----------------------------------------------------------------------------
(* batch_fetch_backtests *)

\* what fetch_backtest_raw(sid, start_date, end_date) can return
FetchBacktestRaw(sid) ==
    {[ok |-> TRUE, status |-> OkStatus, json |-> BacktestDoc(sid, v)] : v \in Variants}
    \cup {[ok |-> FALSE, status |-> c, json |-> ErrorDoc(c)] : c \in FailCodes}

\* write_json(jsond, filename): the file filename now holds jsond
WriteJson(files, jsond, filename) ==
    [f \in DOMAIN files \cup {filename} |-> IF f = filename THEN jsond ELSE files[f]]

\* f"bin/BT-{end_date}/{sid}.json": one file name per identifier
BacktestFile(sid) == sid

\* idx of "for idx, row in df.iterrows()": the index label of the row
RowIdx(k) == df[k].label

\* the head of an iteration: the pause when due, then fetch_backtest_raw
BTFetch ==
    /\ pc = "bt_loop"
    /\ i < Len(df)
    /\ LET idx == RowIdx(i + 1)
           sid == df[i + 1].symphony_sid
           pause == IF SleepDue(idx) THEN <<SleepEvent(idx)>> ELSE <<>>
       IN \E r \in FetchBacktestRaw(sid) :
            /\ r.ok \/ FailedCalls < MaxFailures
            /\ events' = events \o pause
                    \o <<CallEvent("fetch_backtest_raw", idx, sid, r.status, r.json)>>
            /\ fetched' = <<r>>
    /\ pc' = "bt_write"
    /\ UNCHANGED <<i, df, rlist, flist, bin_bt, discordVars, symVars, pbrVars, wfVars>>

\* the response is written only when the call succeeded
BTWrite_OnlyOk ==
    /\ pc = "bt_write"
    /\ LET sid == df[i + 1].symphony_sid
       IN IF fetched[1].ok
          THEN /\ bin_bt' = WriteJson(bin_bt, fetched[1].json, BacktestFile(sid))
               /\ events' = Append(events, CallEvent("write_json", RowIdx(i + 1), sid,
                                                     fetched[1].status, fetched[1].json))
          ELSE UNCHANGED <<bin_bt, events>>
    /\ pc' = "bt_classify"
    /\ UNCHANGED <<i, df, rlist, flist, fetched, discordVars, symVars, pbrVars, wfVars>>

\* write_json(jsond, filename)
BTWrite ==
    /\ pc = "bt_write"
    /\ LET sid == df[i + 1].symphony_sid
       IN /\ bin_bt' = WriteJson(bin_bt, fetched[1].json, BacktestFile(sid))
          /\ events' = Append(events, CallEvent("write_json", RowIdx(i + 1), sid,
                                                fetched[1].status, fetched[1].json))
    /\ pc' = "bt_classify"
    /\ UNCHANGED <<i, df, rlist, flist, fetched, discordVars, symVars, pbrVars, wfVars>>

\* if ok_status_code: rlist.append(jsond) else: flist.append((idx, sid, status_code))
BTClassify ==
    /\ pc = "bt_classify"
    /\ LET idx == RowIdx(i + 1)
           sid == df[i + 1].symphony_sid
           r == fetched[1]
       IN IF r.ok
          THEN /\ rlist' = Append(rlist, r.json)
               /\ UNCHANGED flist
          ELSE /\ flist' = Append(flist, <<idx, sid, r.status>>)
               /\ UNCHANGED rlist
    /\ i' = i + 1
    /\ fetched' = <<>>
    /\ pc' = "bt_loop"
    /\ UNCHANGED <<events, df, bin_bt, discordVars, symVars, pbrVars, wfVars>>

\* return rlist, flist
BTReturn ==
    /\ pc = "bt_loop"
    /\ i = Len(df)
    /\ pc' = "bt_returned"
    /\ UNCHANGED <<events, i, btVars, discordVars, symVars, pbrVars, wfVars>>

----------------------------------------------------------------------------
(* batch_fetch_backtests called on any table of at most MaxRows rows *)

MaxRows == 3
\* index labels a table can carry: the default 0, 1, 2, ... or those left
\* by a filter or a concatenation
LabelValues == {0, 1, 2, 19, 20}
\* what an earlier run left in the file of sid
StaleDoc(sid) == BacktestDoc(sid, 0)

InitBT ==
    /\ pc = "bt_loop"
    /\ events = <<>>
    /\ i = 0
    /\ \E n \in 0..MaxRows : \E labels \in [1..n -> LabelValues] :
          df = [k \in 1..n |-> [label |-> labels[k], symphony_sid |-> SidPattern(n)[k]]]
    /\ rlist = <<>>
    /\ flist = <<>>
    /\ fetched = <<>>
    /\ bin_bt \in {Empty, [sid \in Sids |-> StaleDoc(sid)]}
    /\ IdleDiscord /\ IdleSym /\ IdlePBR /\ IdleWf

NextBT == BTFetch \/ BTWrite \/ BTClassify \/ BTReturn

SpecBT == InitBT /\ [][NextBT]_vars

----------------------------------------------------------------------------
(* Properties of batch_fetch_backtests *)

IsBTCall(e) == e.op = "fetch_backtest_raw"
BTCalls == SelectSeq(events, IsBTCall)
\* the number of fetch_backtest_raw calls before event k: the 0-indexed
\* row position of the iteration event k belongs to
CallsBefore(k) == Cardinality({j \in 1..(k - 1) : events[j].op = "fetch_backtest_raw"})
\* the response of the last call made for identifier sid
LastResponse(sid) ==
    LET ks == {c \in DOMAIN BTCalls : BTCalls[c].sid = sid}
        last == CHOOSE c \in ks : \A d \in ks : d <= c
    IN BTCalls[last].data

\* C4: every response is written to the file of its identifier before it
\* is classified, whatever its status; so every recorded success and
\* failure has its file, and on return the file of every identifier of the
\* table holds the last response fetched for it.
C4_WrittenBeforeClassified ==
    /\ pc = "bt_classify" =>
          LET name == BacktestFile(df[i + 1].symphony_sid)
          IN /\ name \in DOMAIN bin_bt
             /\ bin_bt[name] = fetched[1].json
    /\ pc = "bt_write" => (Len(rlist) + Len(flist) = i)
    /\ \A k \in DOMAIN flist : BacktestFile(flist[k][2]) \in DOMAIN bin_bt
    /\ \A k \in 1..i :
          /\ BacktestFile(df[k].symphony_sid) \in DOMAIN bin_bt
          /\ (pc # "bt_write") =>
                bin_bt[BacktestFile(df[k].symphony_sid)] = LastResponse(df[k].symphony_sid)
    /\ pc = "bt_returned" => i = Len(df)

\* a returned batch in which an identifier was fetched twice, first with
\* success and last with a failure, over stale files
C4_Witness ==
    /\ pc = "bt_returned"
    /\ Len(df) = 3
    /\ Len(flist) = 2
    /\ flist[2][2] = df[1].symphony_sid
    /\ flist[2][2] = df[3].symphony_sid
    /\ Len(rlist) = 1
    /\ bin_bt[BacktestFile(df[3].symphony_sid)].kind = "error"

\* C5: the pause of batch_fetch_backtests happens before the call at
\* exactly the 0-indexed row positions 0, 20, 40, ..., whatever the index
\* labels of the table, and a failure record carries the ordinal position
\* of the failing row.
C5_PacingByRowPosition ==
    /\ \A k \in DOMAIN events :
          events[k].op = "sleep" => CallsBefore(k) % 20 = 0
    /\ \A k \in DOMAIN events :
          (events[k].op = "fetch_backtest_raw" /\ CallsBefore(k) % 20 = 0) =>
              /\ k > 1
              /\ events[k - 1].op = "sleep"
    /\ \A k \in DOMAIN flist :
          \E p \in 1..Len(df) :
              /\ flist[k][1] = p - 1
              /\ flist[k][2] = df[p].symphony_sid

----------------------------------------------------------------------------
(* process_backtest_results *)

\* a file that is no JSON document
GarbageDoc == [kind |-> "garbage", id |-> 0, variant |-> 0]

\* read_json(jsonfile) raises when the file is missing or cannot be parsed
ReadJsonRaises(files, jsonfile) ==
    \/ jsonfile \notin DOMAIN files
    \/ files[jsonfile].kind = "garbage"

\* get_backtest_and_symphony_name(jsond) raises on a document that is no
\* backtest (the payload of a failed call has none of the sections)
ExtractRaises(jsond) == jsond.kind # "backtest"

\* the summary stats section of a backtest document: metric -> value
StatsOf(jsond) ==
    IF jsond.variant = 1
    THEN [m \in {"cagr", "sharpe"} |-> 10 * jsond.id + 1]
    ELSE [m \in {"cagr", "sharpe", "sortino"} |-> 10 * jsond.id + 2]

\* df_allocations, df_return, stats, symphony_name, id
GetBacktestAndSymphonyName(jsond) ==
    [df_allocations |-> <<"allocations", jsond.id, jsond.variant>>,
     df_return |-> <<"return", jsond.id, jsond.variant>>,
     stats |-> StatsOf(jsond),
     symphony_name |-> <<"name", jsond.id, jsond.variant>>,
     id |-> jsond.id]

\* d[key] = value
DictSet(d, key, value) ==
    [x \in DOMAIN d \cup {key} |-> IF x = key THEN value ELSE d[x]]

FailEvent(index, jsonfile) == CallEvent("fail_jsonfile", index, jsonfile, 0, NoData)

\* the name is stored before the extraction fails
PBRIterate_Partial ==
    /\ pc = "pbr_loop"
    /\ i < Len(jsonfiles)
    /\ LET jsonfile == jsonfiles[i + 1]
       IN IF ReadJsonRaises(bin_bt, jsonfile)
          THEN /\ events' = Append(events, FailEvent(i, jsonfile))
               /\ UNCHANGED <<dict_allocation, dict_return, dict_stats, dict_name>>
          ELSE IF ExtractRaises(bin_bt[jsonfile])
          THEN /\ events' = Append(events, FailEvent(i, jsonfile))
               /\ dict_name' = DictSet(dict_name, bin_bt[jsonfile].id, <<"name", 0, 0>>)
               /\ UNCHANGED <<dict_allocation, dict_return, dict_stats>>
          ELSE LET x == GetBacktestAndSymphonyName(bin_bt[jsonfile])
               IN /\ dict_name' = DictSet(dict_name, x.id, x.symphony_name)
                  /\ dict_stats' = DictSet(dict_stats, x.id, x.stats)
                  /\ dict_return' = DictSet(dict_return, x.id, x.df_return)
                  /\ dict_allocation' = DictSet(dict_allocation, x.id, x.df_allocations)
                  /\ UNCHANGED events
    /\ i' = i + 1
    /\ UNCHANGED <<pc, jsonfiles, discordVars, symVars, btVars, wfVars>>

\* a missing file is not caught: the error leaves the function
PBRIterate_RaiseMissing ==
    /\ pc = "pbr_loop"
    /\ i < Len(jsonfiles)
    /\ LET jsonfile == jsonfiles[i + 1]
       IN IF jsonfile \notin DOMAIN bin_bt
          THEN /\ pc' = "pbr_raised"
               /\ UNCHANGED <<i, events, dict_allocation, dict_return, dict_stats, dict_name>>
          ELSE IF ReadJsonRaises(bin_bt, jsonfile) \/ ExtractRaises(bin_bt[jsonfile])
          THEN /\ events' = Append(events, FailEvent(i, jsonfile))
               /\ i' = i + 1
               /\ UNCHANGED <<pc, dict_allocation, dict_return, dict_stats, dict_name>>
          ELSE LET x == GetBacktestAndSymphonyName(bin_bt[jsonfile])
               IN /\ dict_name' = DictSet(dict_name, x.id, x.symphony_name)
                  /\ dict_stats' = DictSet(dict_stats, x.id, x.stats)
                  /\ dict_return' = DictSet(dict_return, x.id, x.df_return)
                  /\ dict_allocation' = DictSet(dict_allocation, x.id, x.df_allocations)
                  /\ i' = i + 1
                  /\ UNCHANGED <<pc, events>>
    /\ UNCHANGED <<jsonfiles, discordVars, symVars, btVars, wfVars>>

\* one iteration: the try block runs to its end, or the bare except prints
\* 'Fail jsonfile' and the loop goes on
PBRIterate ==
    /\ pc = "pbr_loop"
    /\ i < Len(jsonfiles)
    /\ LET jsonfile == jsonfiles[i + 1]
       IN IF ReadJsonRaises(bin_bt, jsonfile) \/ ExtractRaises(bin_bt[jsonfile])
          THEN /\ events' = Append(events, FailEvent(i, jsonfile))
               /\ UNCHANGED <<dict_allocation, dict_return, dict_stats, dict_name>>
          ELSE LET x == GetBacktestAndSymphonyName(bin_bt[jsonfile])
               IN /\ dict_name' = DictSet(dict_name, x.id, x.symphony_name)
                  /\ dict_stats' = DictSet(dict_stats, x.id, x.stats)
                  /\ dict_return' = DictSet(dict_return, x.id, x.df_return)
                  /\ dict_allocation' = DictSet(dict_allocation, x.id, x.df_allocations)
                  /\ UNCHANGED events
    /\ i' = i + 1
    /\ UNCHANGED <<pc, jsonfiles, discordVars, symVars, btVars, wfVars>>

\* return dict_allocation, dict_return, dict_stats, dict_name
PBRReturn ==
    /\ pc = "pbr_loop"
    /\ i = Len(jsonfiles)
    /\ pc' = "pbr_returned"
    /\ UNCHANGED <<events, i, pbrVars, discordVars, symVars, btVars, wfVars>>

----------------------------------------------------------------------------
(* process_backtest_results called on any sequence of at most MaxFiles     *)
(* file names over any content of the directory                            *)

MaxFiles == 3
FileNames == {1, 2, 3}
FileContents ==
    {GarbageDoc} \cup {ErrorDoc(c) : c \in {404}}
    \cup {BacktestDoc(sid, v) : sid \in Sids, v \in Variants}

RECURSIVE SeqsUpTo(_, _)
\* the sequences over S of length at most n
SeqsUpTo(S, n) ==
    IF n = 0 THEN {<<>>}
    ELSE LET shorter == SeqsUpTo(S, n - 1)
         IN shorter \cup {Append(q, x) : q \in shorter, x \in S}

InitPBR ==
    /\ pc = "pbr_loop"
    /\ events = <<>>
    /\ i = 0
    /\ jsonfiles \in SeqsUpTo(FileNames, MaxFiles)
    /\ \E present \in SUBSET FileNames : bin_bt \in [present -> FileContents]
    /\ dict_allocation = Empty
    /\ dict_return = Empty
    /\ dict_stats = Empty
    /\ dict_name = Empty
    /\ df = <<>> /\ rlist = <<>> /\ flist = <<>> /\ fetched = <<>>
    /\ IdleDiscord /\ IdleSym /\ IdleWf

NextPBR == PBRIterate \/ PBRReturn

SpecPBR == InitPBR /\ [][NextPBR]_vars

----------------------------------------------------------------------------
(* Properties of process_backtest_results *)

Missing(jsonfile) == jsonfile \notin DOMAIN bin_bt
WellFormed(jsonfile) == jsonfile \in DOMAIN bin_bt /\ bin_bt[jsonfile].kind = "backtest"
\* positions (1-based) of the visited files that are well-formed
GoodVisits == {k \in 1..i : WellFormed(jsonfiles[k])}
GoodIds == {bin_bt[jsonfiles[k]].id : k \in GoodVisits}
\* the document of the last visited well-formed file carrying identifier id
LastDocOf(id) ==
    LET ks == {k \in GoodVisits : bin_bt[jsonfiles[k]].id = id}
    IN bin_bt[jsonfiles[CHOOSE k \in ks : \A d \in ks : d <= k]]
IsFailLine(e) == e.op = "fail_jsonfile"
FailLines == SelectSeq(events, IsFailLine)

\* C6: process_backtest_results never aborts; every file is visited, a
\* file whose read or extraction fails adds nothing to any of the four
\* mappings, and each mapping holds exactly the identifiers of the
\* well-formed files with the values extracted from them.
C6_MalformedSkipped ==
    /\ pc # "pbr_raised"
    /\ pc = "pbr_returned" => i = Len(jsonfiles)
    /\ DOMAIN dict_allocation = GoodIds
    /\ DOMAIN dict_return = GoodIds
    /\ DOMAIN dict_stats = GoodIds
    /\ DOMAIN dict_name = GoodIds
    /\ \A id \in GoodIds :
          LET x == GetBacktestAndSymphonyName(LastDocOf(id))
          IN /\ dict_allocation[id] = x.df_allocations
             /\ dict_return[id] = x.df_return
             /\ dict_stats[id] = x.stats
             /\ dict_name[id] = x.symphony_name

\* a returned batch of three files whose second is malformed
C6_Witness ==
    /\ pc = "pbr_returned"
    /\ Len(jsonfiles) = 3
    /\ WellFormed(jsonfiles[1]) /\ WellFormed(jsonfiles[3])
    /\ jsonfiles[2] \in DOMAIN bin_bt
    /\ ~WellFormed(jsonfiles[2])
    /\ bin_bt[jsonfiles[1]].id # bin_bt[jsonfiles[3]].id
    /\ DOMAIN dict_stats = {bin_bt[jsonfiles[1]].id, bin_bt[jsonfiles[3]].id}

\* C7 as stated: a missing file halts process_backtest_results, which
\* reports it to its caller instead of skipping it and going on.
C7_MissingFileHalts ==
    \A k \in 1..Len(jsonfiles) :
        Missing(jsonfiles[k]) => (i < k \/ pc = "pbr_raised")

\* C7 amended: a missing file is skipped like a malformed one: a 'Fail
\* jsonfile' line is printed for it, the loop goes on to the remaining
\* files and the function returns normally.
C7_MissingFileSkipped ==
    /\ pc \in {"pbr_loop", "pbr_returned"}
    /\ \A k \in 1..i :
          Missing(jsonfiles[k]) =>
              \E e \in Range(FailLines) : e.idx = k - 1 /\ e.sid = jsonfiles[k]
    /\ pc = "pbr_returned" =>
          /\ i = Len(jsonfiles)
          /\ \A k \in 1..Len(jsonfiles) :
                WellFormed(jsonfiles[k]) => bin_bt[jsonfiles[k]].id \in DOMAIN dict_stats

\* a returned batch whose first file is missing and whose second file was
\* processed
C7_Witness ==
    /\ pc = "pbr_returned"
    /\ Len(jsonfiles) >= 2
    /\ Missing(jsonfiles[1])
    /\ WellFormed(jsonfiles[2])
    /\ bin_bt[jsonfiles[2]].id \in DOMAIN dict_stats
    /\ Len(FailLines) = 1

----------------------------------------------------------------------------
(* process_discord_exports *)

\* the record a file of content variant v holds for identifier sid
SymphonyRecord(sid, v) == [symphony_sid |-> sid, title |-> v]

\* get_symphonies(target_file): identifier -> record, for the symphonies
\* the export file mentions
GetSymphonies(entry) == [sid \in entry.sids |-> SymphonyRecord(sid, entry.variant)]

\* listdir(dirpath): the names of the entries (an entry is named by its
\* place in the directory).  The order is arbitrary: every order is an
\* initial state; it is a property of the directory, so an unchanged
\* directory lists the same way on every call.
ListDir(dir) == [k \in DOMAIN dir |-> k]
\* isfile(join(dirpath, f))
IsFile(dir, f) == dir[f].kind = "file"

\* dict.update keeping the value already present
DictUpdate_KeepFirst(d, other) ==
    [x \in DOMAIN d \cup DOMAIN other |-> IF x \in DOMAIN d THEN d[x] ELSE other[x]]
\* d.update(other)
DictUpdate(d, other) ==
    [x \in DOMAIN d \cup DOMAIN other |-> IF x \in DOMAIN other THEN other[x] ELSE d[x]]

IsListedFile(f) == IsFile(export_dir, f)

\* jsonfiles = [...]; symphonies_dict = {}
DiscordList ==
    /\ pc = "discord_start"
    /\ discord_jsonfiles' = SelectSeq(ListDir(export_dir), IsListedFile)
    /\ symphonies_dict' = Empty
    /\ i' = 0
    /\ pc' = "discord_loop"
    /\ UNCHANGED <<events, export_dir, previous_result, symVars, btVars, pbrVars, wfVars>>

\* symphonies_dict.update(get_symphonies(target_file))
DiscordIterate ==
    /\ pc = "discord_loop"
    /\ i < Len(discord_jsonfiles)
    /\ LET target_file == discord_jsonfiles[i + 1]
       IN symphonies_dict' = DictUpdate(symphonies_dict,
                                        GetSymphonies(export_dir[target_file]))
    /\ i' = i + 1
    /\ UNCHANGED <<pc, events, export_dir, discord_jsonfiles, previous_result,
                   symVars, btVars, pbrVars, wfVars>>

\* return symphonies_dict
DiscordReturn ==
    /\ pc = "discord_loop"
    /\ i = Len(discord_jsonfiles)
    /\ pc' = "discord_returned"
    /\ UNCHANGED <<events, i, discordVars, symVars, btVars, pbrVars, wfVars>>

\* the caller keeps the mapping returned and calls process_discord_exports
\* again on the same directory
DiscordRerun ==
    /\ pc = "discord_returned"
    /\ previous_result = <<>>
    /\ previous_result' = <<symphonies_dict>>
    /\ pc' = "discord_start"
    /\ UNCHANGED <<events, i, export_dir, discord_jsonfiles, symphonies_dict,
                   symVars, btVars, pbrVars, wfVars>>

----------------------------------------------------------------------------
(* process_discord_exports run twice over any directory of at most         *)
(* MaxEntries entries                                                      *)

MaxEntries == 3
\* an entry is a sub-directory or an export file mentioning some symphonies
EntryTypes ==
    {[kind |-> "dir", sids |-> {}, variant |-> 0]}
    \cup {[kind |-> "file", sids |-> {}, variant |-> 0]}
    \cup {[kind |-> "file", sids |-> ss, variant |-> v] :
              ss \in (SUBSET Sids) \ {{}}, v \in Variants}

InitDiscord ==
    /\ pc = "discord_start"
    /\ events = <<>>
    /\ i = 0
    /\ export_dir \in SeqsUpTo(EntryTypes, MaxEntries)
    /\ discord_jsonfiles = <<>>
    /\ symphonies_dict = Empty
    /\ previous_result = <<>>
    /\ IdleSym /\ IdleBT /\ IdlePBR /\ IdleWf

NextDiscord == DiscordList \/ DiscordIterate \/ DiscordReturn \/ DiscordRerun

SpecDiscord == InitDiscord /\ [][NextDiscord]_vars

----------------------------------------------------------------------------
(* Properties of process_discord_exports *)

\* the files of the directory, by position in the listing, that mention sid
FilesWith(sid) == {f \in DOMAIN export_dir : IsFile(export_dir, f) /\ sid \in export_dir[f].sids}
MentionedSids == {sid \in Sids : FilesWith(sid) # {}}
\* the record of sid in the file listed last among those that mention it
LastListedRecord(sid) ==
    LET f == CHOOSE g \in FilesWith(sid) : \A h \in FilesWith(sid) : h <= g
    IN SymphonyRecord(sid, export_dir[f].variant)
Collision ==
    \E sid \in Sids : \E f, g \in FilesWith(sid) : export_dir[f].variant # export_dir[g].variant

----------------------------------------------------------------------------
(* main_data_collection_workflow *)

\* symphonies_to_df(symphonies_dict): one row per identifier, default index
SymphoniesToDf(d) ==
    LET ids == Ascending(DOMAIN d)
    IN [k \in DOMAIN ids |->
            [label |-> k - 1, symphony_sid |-> ids[k], title |-> d[ids[k]].title]]

\* the start date the API reports in a symphony document
StartDateOf(doc) == 2000 + doc.id

\* response_to_dataframe(response_list): one row per response
ResponseToDataframe(responses) ==
    [columns |-> <<"symphony_sid", "backtest_start_date">>,
     rows |-> [k \in DOMAIN responses |->
                  [symphony_sid |-> responses[k].id,
                   backtest_start_date |-> StartDateOf(responses[k])]]]

\* df.to_csv of the symphonies table
SymphoniesCsv(table) == [columns |-> <<"symphony_sid", "title">>, rows |-> table]

\* the metrics computed from one return series
QuantMetrics(ret) == [m \in {"sharpe", "sortino", "calmar"} |-> 100 + 10 * ret[2] + ret[3]]

\* calculate_quantstats_metrics(dict_return): metrics per identifier; an
\* identifier whose metrics cannot be computed is left out
CalculateQuantstatsMetrics(returns) ==
    {[id \in ids |-> QuantMetrics(returns[id])] : ids \in SUBSET DOMAIN returns}

\* dict(df_response[['symphony_sid', 'backtest_start_date']].values)
SidToOos(table) ==
    [id \in {table.rows[k].symphony_sid : k \in DOMAIN table.rows} |-> 2000 + id]

\* calculate_oos_stats(dict_return, sid_to_oos): metrics over the window
\* that starts at the identifier's reference date
CalculateOosStats(returns, sid_to_oos) ==
    [id \in DOMAIN returns \cap DOMAIN sid_to_oos |->
        [m \in {"oos_sharpe"} |-> 1000 * sid_to_oos[id] + 10 * returns[id][2] + returns[id][3]]]

\* merge of two metric mappings: the keys of both, the second one's value
\* where both have the key
MergeMetrics(m1, m2) ==
    [k \in DOMAIN m1 \cup DOMAIN m2 |-> IF k \in DOMAIN m2 THEN m2[k] ELSE m1[k]]

\* merge_dicts(dict1, dict2): per identifier, the union of the two entries
MergeDicts(dict1, dict2) ==
    [id \in DOMAIN dict1 \cup DOMAIN dict2 |->
        IF id \in DOMAIN dict1 /\ id \in DOMAIN dict2
        THEN MergeMetrics(dict1[id], dict2[id])
        ELSE IF id \in DOMAIN dict1 THEN dict1[id] ELSE dict2[id]]

\* convert_sid_dict_to_df(dict_name, d): one row per identifier of d, with
\* the symphony name as a column
ConvertSidDictToDf(names, d) ==
    LET ids == Ascending(DOMAIN d)
    IN [columns |-> <<"symphony_sid", "name", "metrics">>,
        rows |-> [k \in DOMAIN ids |->
                    [symphony_sid |-> ids[k],
                     name |-> IF ids[k] \in DOMAIN names THEN names[ids[k]]
                              ELSE <<"name", 0, 0>>,
                     metrics |-> d[ids[k]]]]]

\* start_date, end_date = get_start_end_date(); process_discord_exports(dirpath)
WfStart ==
    /\ pc = "wf_start"
    /\ pc' = "discord_start"
    /\ UNCHANGED <<events, i, discordVars, symVars, btVars, pbrVars, wfVars>>

\* df = symphonies_to_df(...); df.to_csv(get_csv_name('SYMPHONIES'));
\* batch_fetch_symphonies(df['symphony_sid'].values)
WfSaveSymphonies ==
    /\ pc = "discord_returned"
    /\ df' = SymphoniesToDf(symphonies_dict)
    /\ csv' = DictSet(csv, "SYMPHONIES", SymphoniesCsv(df'))
    /\ symphony_sid_list' = [k \in DOMAIN df' |-> df'[k].symphony_sid]
    /\ response_list' = <<>>
    /\ failure_list' = <<>>
    /\ i' = 0
    /\ pc' = "sym_loop"
    /\ UNCHANGED <<events, discordVars, rlist, flist, fetched, bin_bt, pbrVars,
                   df_response, dict_quant_stats, dict_quant_oos_stats, dict_backtest_stats>>

\* df_response = response_to_dataframe(response_list);
\* df_response.to_csv(get_csv_name('OOS')); batch_fetch_backtests(df, ...)
WfSaveResponses ==
    /\ pc = "sym_returned"
    /\ df_response' = ResponseToDataframe(response_list)
    /\ csv' = DictSet(csv, "OOS", df_response')
    /\ rlist' = <<>>
    /\ flist' = <<>>
    /\ i' = 0
    /\ pc' = "bt_loop"
    /\ UNCHANGED <<events, discordVars, symVars, df, fetched, bin_bt, pbrVars,
                   dict_quant_stats, dict_quant_oos_stats, dict_backtest_stats>>

\* jsonfiles = [...]; process_backtest_results(jsonfiles)
WfListBacktests ==
    /\ pc = "bt_returned"
    /\ jsonfiles' = [k \in DOMAIN df |-> BacktestFile(df[k].symphony_sid)]
    /\ dict_allocation' = Empty
    /\ dict_return' = Empty
    /\ dict_stats' = Empty
    /\ dict_name' = Empty
    /\ i' = 0
    /\ pc' = "pbr_loop"
    /\ UNCHANGED <<events, discordVars, symVars, btVars, wfVars>>

\* dict_quant_stats = calculate_quantstats_metrics(dict_return)
WfQuantStats ==
    /\ pc = "pbr_returned"
    /\ dict_quant_stats' \in CalculateQuantstatsMetrics(dict_return)
    /\ pc' = "wf_oos_stats"
    /\ UNCHANGED <<events, i, discordVars, symVars, btVars, pbrVars,
                   df_response, dict_quant_oos_stats, dict_backtest_stats, csv>>

\* sid_to_oos = ...; dict_quant_oos_stats = calculate_oos_stats(dict_return, sid_to_oos)
WfOosStats ==
    /\ pc = "wf_oos_stats"
    /\ dict_quant_oos_stats' = CalculateOosStats(dict_return, SidToOos(df_response))
    /\ pc' = "wf_merge"
    /\ UNCHANGED <<events, i, discordVars, symVars, btVars, pbrVars,
                   df_response, dict_quant_stats, dict_backtest_stats, csv>>

\* the merge with its arguments exchanged
WfMerge_Swapped ==
    /\ pc = "wf_merge"
    /\ dict_backtest_stats' = MergeDicts(dict_quant_stats, dict_stats)
    /\ csv' = DictSet(csv, "BACKTEST", ConvertSidDictToDf(dict_name, dict_backtest_stats'))
    /\ pc' = "wf_save_oos_stats"
    /\ UNCHANGED <<events, i, discordVars, symVars, btVars, pbrVars,
                   df_response, dict_quant_stats, dict_quant_oos_stats>>

\* dict_backtest_stats = merge_dicts(dict_stats, dict_quant_stats);
\* df_backtest_stats.to_csv(get_csv_name('BACKTEST'))
WfMerge ==
    /\ pc = "wf_merge"
    /\ dict_backtest_stats' = MergeDicts(dict_stats, dict_quant_stats)
    /\ csv' = DictSet(csv, "BACKTEST", ConvertSidDictToDf(dict_name, dict_backtest_stats'))
    /\ pc' = "wf_save_oos_stats"
    /\ UNCHANGED <<events, i, discordVars, symVars, btVars, pbrVars,
                   df_response, dict_quant_stats, dict_quant_oos_stats>>

\* df_oos_stats = convert_sid_dict_to_df(dict_name, dict_quant_oos_stats);
\* df_oos_stats.to_csv(get_csv_name('OOS')); return
WfSaveOosStats ==
    /\ pc = "wf_save_oos_stats"
    /\ csv' = DictSet(csv, "OOS", ConvertSidDictToDf(dict_name, dict_quant_oos_stats))
    /\ pc' = "wf_done"
    /\ UNCHANGED <<events, i, discordVars, symVars, btVars, pbrVars,
                   df_response, dict_quant_stats, dict_quant_oos_stats, dict_backtest_stats>>

----------------------------------------------------------------------------
(* The workflow run on any export directory of at most MaxWfEntries entries *)

MaxWfEntries == 1

Init ==
    /\ pc = "wf_start"
    /\ events = <<>>
    /\ i = 0
    /\ export_dir \in SeqsUpTo(EntryTypes, MaxWfEntries)
    /\ discord_jsonfiles = <<>>
    /\ symphonies_dict = Empty
    /\ previous_result = <<>>
    /\ IdleSym /\ IdleBT /\ IdlePBR /\ IdleWf

Next ==
    \/ WfStart
    \/ DiscordList \/ DiscordIterate \/ DiscordReturn
    \/ WfSaveSymphonies
    \/ SymIterate \/ SymReturn
    \/ WfSaveResponses
    \/ BTFetch \/ BTWrite \/ BTClassify \/ BTReturn
    \/ WfListBacktests
    \/ PBRIterate \/ PBRReturn
    \/ WfQuantStats
    \/ WfOosStats
    \/ WfMerge
    \/ WfSaveOosStats

Spec == Init /\ [][Next]_vars

----------------------------------------------------------------------------
(* Properties of main_data_collection_workflow *)

\* C9: when the workflow is done the OOS file holds the table of the
\* symphony details returned by the API (the success list of
\* batch_fetch_symphonies), the BACKTEST file the backtest statistics and
\* the SYMPHONIES file the symphony metadata.
C9_OOSHoldsSymphonyDetails ==
    (pc = "wf_done" /\ response_list # <<>>) =>
        /\ csv["OOS"] = ResponseToDataframe(response_list)
        /\ csv["BACKTEST"] = ConvertSidDictToDf(dict_name, dict_backtest_stats)
        /\ csv["SYMPHONIES"] = SymphoniesCsv(df)

\* C10: the merged mapping has, for every identifier of either mapping
\* and every metric of either entry, the quant-stats value where quant
\* stats has the metric and the raw-stats value otherwise.
C10_MergePrefersQuantStats ==
    pc \in {"wf_save_oos_stats", "wf_done"} =>
        /\ DOMAIN dict_backtest_stats = DOMAIN dict_stats \cup DOMAIN dict_quant_stats
        /\ \A id \in DOMAIN dict_backtest_stats :
              LET raw == IF id \in DOMAIN dict_stats THEN dict_stats[id] ELSE Empty
                  quant == IF id \in DOMAIN dict_quant_stats THEN dict_quant_stats[id] ELSE Empty
                  merged == dict_backtest_stats[id]
              IN /\ DOMAIN merged = DOMAIN raw \cup DOMAIN quant
                 /\ \A m \in DOMAIN quant : merged[m] = quant[m]
                 /\ \A m \in DOMAIN raw \ DOMAIN quant : merged[m] = raw[m]

\* the workflow is done with an identifier that has raw stats only and an
\* identifier whose raw and quant stats share a metric with two values
C10_Witness ==
    /\ pc = "wf_done"
    /\ \E id \in DOMAIN dict_stats : id \notin DOMAIN dict_quant_stats
    /\ \E id \in DOMAIN dict_stats \cap DOMAIN dict_quant_stats :
          /\ \E m \in DOMAIN dict_stats[id] \cap DOMAIN dict_quant_stats[id] :
                dict_stats[id][m] # dict_quant_stats[id][m]
          /\ DOMAIN dict_stats[id] \ DOMAIN dict_quant_stats[id] # {}
          /\ DOMAIN dict_quant_stats[id] \ DOMAIN dict_stats[id] # {}

====
